---- MODULE Spec2Model ----
(***************************************************************************)
(* Model of src/app.py: the sentiment classification / aligned text        *)
(* generation pipeline of the Streamlit application.                       *)
(*                                                                         *)
(* A Python str is a sequence of one-character strings.  The remote model  *)
(* (model.generate_content) is the environment: each call either throws or *)
(* answers with a text.                                                    *)
(***************************************************************************)
EXTENDS Integers, Sequences, FiniteSets, TLC

(***************************************************************************)
(* Python str methods used by app.py                                       *)
(***************************************************************************)

LowerCase ==
  << "a", "b", "c", "d", "e", "f", "g", "h", "i", "j", "k", "l", "m",
     "n", "o", "p", "q", "r", "s", "t", "u", "v", "w", "x", "y", "z" >>

UpperCase ==
  << "A", "B", "C", "D", "E", "F", "G", "H", "I", "J", "K", "L", "M",
     "N", "O", "P", "Q", "R", "S", "T", "U", "V", "W", "X", "Y", "Z" >>

Digits == {"0", "1", "2", "3", "4", "5", "6", "7", "8", "9"}

\* str.isspace() of one character
IsSpace(c) == c \in {" ", "\t", "\n"}

UpperChar(c) ==
  IF \E i \in 1..Len(LowerCase) : LowerCase[i] = c
    THEN UpperCase[CHOOSE i \in 1..Len(LowerCase) : LowerCase[i] = c]
    ELSE c

LowerChar(c) ==
  IF \E i \in 1..Len(UpperCase) : UpperCase[i] = c
    THEN LowerCase[CHOOSE i \in 1..Len(UpperCase) : UpperCase[i] = c]
    ELSE c

\* str.upper()
upper(s) == [i \in 1..Len(s) |-> UpperChar(s[i])]

\* str.lower()
lower(s) == [i \in 1..Len(s) |-> LowerChar(s[i])]

\* str.strip(): drops the leading and the trailing whitespace
strip(s) ==
  IF \A i \in 1..Len(s) : IsSpace(s[i])
    THEN << >>
    ELSE LET first == CHOOSE i \in 1..Len(s) :
                        /\ ~IsSpace(s[i])
                        /\ \A j \in 1..(i - 1) : IsSpace(s[j])
             last_ == CHOOSE i \in 1..Len(s) :
                        /\ ~IsSpace(s[i])
                        /\ \A j \in (i + 1)..Len(s) : IsSpace(s[j])
         IN  SubSeq(s, first, last_)

\* s[i:].startswith(sub), i counted from 1
StartsWithAt(s, sub, i) ==
  /\ i + Len(sub) - 1 <= Len(s)
  /\ \A k \in 1..Len(sub) : s[i + k - 1] = sub[k]

\* sub in s
Contains(s, sub) == \E i \in 1..(Len(s) + 1) : StartsWithAt(s, sub, i)

RECURSIVE ReplaceFrom(_, _, _, _)
ReplaceFrom(s, old, new, i) ==
  IF i > Len(s) THEN << >>
  ELSE IF StartsWithAt(s, old, i)
    THEN new \o ReplaceFrom(s, old, new, i + Len(old))
    ELSE << s[i] >> \o ReplaceFrom(s, old, new, i + 1)

\* str.replace(old, new) for a non-empty old: every non-overlapping
\* occurrence, left to right
replace(s, old, new) == ReplaceFrom(s, old, new, 1)

(***************************************************************************)
(* json.loads, for the JSON texts the remote answers are drawn from:       *)
(* objects, arrays, strings without escapes, unsigned integers, null.      *)
(* A parsed value is a record [type, str, items]; for an object, items is  *)
(* the sequence of its members [key, value] in document order.             *)
(***************************************************************************)

JNull == [type |-> "null", str |-> << >>, items |-> << >>]
JStr(s) == [type |-> "str", str |-> s, items |-> << >>]
JNum(s) == [type |-> "int", str |-> s, items |-> << >>]
JObj(ms) == [type |-> "dict", str |-> << >>, items |-> ms]
JArr(es) == [type |-> "list", str |-> << >>, items |-> es]

\* the result of a parse step: ok, the value, the index after it
PFail == [ok |-> FALSE, val |-> JNull, next |-> 0]
POk(v, n) == [ok |-> TRUE, val |-> v, next |-> n]

RECURSIVE SkipWs(_, _)
SkipWs(s, i) == IF i <= Len(s) /\ IsSpace(s[i]) THEN SkipWs(s, i + 1) ELSE i

RECURSIVE DigitsEnd(_, _)
DigitsEnd(s, i) == IF i <= Len(s) /\ s[i] \in Digits THEN DigitsEnd(s, i + 1) ELSE i

\* the index of the closing quote of the string opened at i - 1, or 0
RECURSIVE QuoteEnd(_, _)
QuoteEnd(s, i) ==
  IF i > Len(s) THEN 0
  ELSE IF s[i] = "\"" THEN i
  ELSE QuoteEnd(s, i + 1)

ParseString(s, i) ==
  IF i <= Len(s) /\ s[i] = "\"" /\ QuoteEnd(s, i + 1) # 0
    THEN POk(JStr(SubSeq(s, i + 1, QuoteEnd(s, i + 1) - 1)), QuoteEnd(s, i + 1) + 1)
    ELSE PFail

RECURSIVE ParseValue(_, _)
RECURSIVE ParseMembers(_, _, _)
RECURSIVE ParseElements(_, _, _)

\* the members of an object after "{" or ",": i is at the next key
ParseMembers(s, i, acc) ==
  LET k == ParseString(s, i)
      c == SkipWs(s, k.next)
      v == ParseValue(s, SkipWs(s, c + 1))
      e == SkipWs(s, v.next)
      ms == Append(acc, [key |-> k.val.str, value |-> v.val])
  IN  IF ~k.ok \/ c > Len(s) \/ s[c] # ":" THEN PFail
      ELSE IF ~v.ok \/ e > Len(s) THEN PFail
      ELSE IF s[e] = "}" THEN POk(JObj(ms), e + 1)
      ELSE IF s[e] = "," THEN ParseMembers(s, SkipWs(s, e + 1), ms)
      ELSE PFail

\* the elements of an array after "[" or ",": i is at the next element
ParseElements(s, i, acc) ==
  LET v == ParseValue(s, i)
      e == SkipWs(s, v.next)
      es == Append(acc, v.val)
  IN  IF ~v.ok \/ e > Len(s) THEN PFail
      ELSE IF s[e] = "]" THEN POk(JArr(es), e + 1)
      ELSE IF s[e] = "," THEN ParseElements(s, SkipWs(s, e + 1), es)
      ELSE PFail

ParseValue(s, i) ==
  IF i > Len(s) THEN PFail
  ELSE IF s[i] = "\"" THEN ParseString(s, i)
  ELSE IF s[i] \in Digits THEN POk(JNum(SubSeq(s, i, DigitsEnd(s, i) - 1)), DigitsEnd(s, i))
  ELSE IF StartsWithAt(s, << "n", "u", "l", "l" >>, i) THEN POk(JNull, i + 4)
  ELSE IF s[i] = "{"
    THEN IF SkipWs(s, i + 1) <= Len(s) /\ s[SkipWs(s, i + 1)] = "}"
           THEN POk(JObj(<< >>), SkipWs(s, i + 1) + 1)
           ELSE ParseMembers(s, SkipWs(s, i + 1), << >>)
  ELSE IF s[i] = "["
    THEN IF SkipWs(s, i + 1) <= Len(s) /\ s[SkipWs(s, i + 1)] = "]"
           THEN POk(JArr(<< >>), SkipWs(s, i + 1) + 1)
           ELSE ParseElements(s, SkipWs(s, i + 1), << >>)
  ELSE PFail

\* json.loads(s): [ok |-> FALSE] stands for json.JSONDecodeError
json_loads(s) ==
  LET p == ParseValue(s, SkipWs(s, 1))
  IN  IF p.ok /\ SkipWs(s, p.next) > Len(s) THEN p ELSE PFail

\* Literals of src/app.py
\* 'positive'
POSITIVE ==
  << "p", "o", "s", "i", "t", "i", "v", "e" >>
\* 'negative'
NEGATIVE ==
  << "n", "e", "g", "a", "t", "i", "v", "e" >>
\* 'neutral'
NEUTRAL ==
  << "n", "e", "u", "t", "r", "a", "l" >>
\* 'sentiment'
KEY_sentiment ==
  << "s", "e", "n", "t", "i", "m", "e", "n", "t" >>
\* ' (FUN & EMOJIS)'
FUN_EMOJIS ==
  << " ", "(", "F", "U", "N", " ", "&", " ", "E", "M", "O", "J", "I",
     "S", ")" >>
\* 'ELI10'
ELI10 ==
  << "E", "L", "I", "1", "0" >>
\* 'Normal'
NORMAL ==
  << "N", "o", "r", "m", "a", "l" >>
\* 'ELI10 (Fun & Emojis)'
UI_ELI10 ==
  << "E", "L", "I", "1", "0", " ", "(", "F", "u", "n", " ", "&", " ",
     "E", "m", "o", "j", "i", "s", ")" >>
\* 'Normal (Formal)'
UI_NORMAL ==
  << "N", "o", "r", "m", "a", "l", " ", "(", "F", "o", "r", "m", "a",
     "l", ")" >>
\* 'Generation failed. Please try again.'
GENERATION_FAILED ==
  << "G", "e", "n", "e", "r", "a", "t", "i", "o", "n", " ", "f", "a",
     "i", "l", "e", "d", ".", " ", "P", "l", "e", "a", "s", "e", " ",
     "t", "r", "y", " ", "a", "g", "a", "i", "n", "." >>

\* Input texts
\* ' \t'
T_blank ==
  << " ", "\t" >>
\* 'ab '
T_short ==
  << "a", "b", " " >>
\* 'abc'
T_abc ==
  << "a", "b", "c" >>
\* 'abc '
T_abc_sp ==
  << "a", "b", "c", " " >>

\* Texts the remote model answers a classification call with
\* '{"sentiment": "positive"}'
R_positive ==
  << "{", "\"", "s", "e", "n", "t", "i", "m", "e", "n", "t", "\"", ":",
     " ", "\"", "p", "o", "s", "i", "t", "i", "v", "e", "\"", "}" >>
\* ' {"sentiment":"NEGATIVE"}\n'
R_NEGATIVE ==
  << " ", "{", "\"", "s", "e", "n", "t", "i", "m", "e", "n", "t", "\"",
     ":", "\"", "N", "E", "G", "A", "T", "I", "V", "E", "\"", "}",
     "\n" >>
\* '{"sentiment": "neutral"}'
R_neutral ==
  << "{", "\"", "s", "e", "n", "t", "i", "m", "e", "n", "t", "\"", ":",
     " ", "\"", "n", "e", "u", "t", "r", "a", "l", "\"", "}" >>
\* '{"sentiment": "mixed"}'
R_mixed ==
  << "{", "\"", "s", "e", "n", "t", "i", "m", "e", "n", "t", "\"", ":",
     " ", "\"", "m", "i", "x", "e", "d", "\"", "}" >>
\* '{"mood": "positive"}'
R_nofield ==
  << "{", "\"", "m", "o", "o", "d", "\"", ":", " ", "\"", "p", "o",
     "s", "i", "t", "i", "v", "e", "\"", "}" >>
\* '{}'
R_emptyobj ==
  << "{", "}" >>
\* '{"sentiment": 5}'
R_number ==
  << "{", "\"", "s", "e", "n", "t", "i", "m", "e", "n", "t", "\"", ":",
     " ", "5", "}" >>
\* '{"sentiment": null}'
R_null ==
  << "{", "\"", "s", "e", "n", "t", "i", "m", "e", "n", "t", "\"", ":",
     " ", "n", "u", "l", "l", "}" >>
\* '["positive"]'
R_list ==
  << "[", "\"", "p", "o", "s", "i", "t", "i", "v", "e", "\"", "]" >>
\* '"positive"'
R_string ==
  << "\"", "p", "o", "s", "i", "t", "i", "v", "e", "\"" >>
\* '{"sentiment": "positive"'
R_truncated ==
  << "{", "\"", "s", "e", "n", "t", "i", "m", "e", "n", "t", "\"", ":",
     " ", "\"", "p", "o", "s", "i", "t", "i", "v", "e", "\"" >>
\* 'positive'
R_prose ==
  << "p", "o", "s", "i", "t", "i", "v", "e" >>
\* ' \n'
R_blank ==
  << " ", "\n" >>

\* Texts the remote model answers a generation call with
\* ' Sunny days! \n'
G_text ==
  << " ", "S", "u", "n", "n", "y", " ", "d", "a", "y", "s", "!", " ",
     "\n" >>
\* 'Sunny days!'
G_text_stripped ==
  << "S", "u", "n", "n", "y", " ", "d", "a", "y", "s", "!" >>
\* 'ok'
G_ok ==
  << "o", "k" >>
\* 'mixed'
MIXED ==
  << "m", "i", "x", "e", "d" >>

\* style_mode arguments
\* 'eli10'
ST_eli10 ==
  << "e", "l", "i", "1", "0" >>
\* ' eLi10\n'
ST_eLi10_sp ==
  << " ", "e", "L", "i", "1", "0", "\n" >>
\* '\teli10 (fUN & emojis) '
ST_ui_eli10_mixed ==
  << "\t", "e", "l", "i", "1", "0", " ", "(", "f", "U", "N", " ", "&",
     " ", "e", "m", "o", "j", "i", "s", ")", " " >>
\* 'normal'
ST_normal ==
  << "n", "o", "r", "m", "a", "l" >>
\* ' NORMAL '
ST_NORMAL_sp ==
  << " ", "N", "O", "R", "M", "A", "L", " " >>
\* 'normal (formal)'
ST_normal_ui_lower ==
  << "n", "o", "r", "m", "a", "l", " ", "(", "f", "o", "r", "m", "a",
     "l", ")" >>
\* 'ELI10 mode'
ST_eli10_mode ==
  << "E", "L", "I", "1", "0", " ", "m", "o", "d", "e" >>
\* 'ELI5'
ST_eli5 ==
  << "E", "L", "I", "5" >>


(***************************************************************************)
(* Program constants                                                       *)
(***************************************************************************)

\* @st.cache_data(ttl=300)
TTL == 300

\* @retry(stop=stop_after_attempt(3), ...)
STOP_AFTER_ATTEMPT == 3

\* if len(text.strip()) < 3
MIN_TEXT_LEN == 3

\* 'paragraph' if word_count < 150 else 'short essay'
ESSAY_WORDS == 150

\* the three values of the json_schema enum and of the "Select Sentiment" box
Labels == {POSITIVE, NEGATIVE, NEUTRAL}

\* Python's None (selected_sentiment in auto-detect mode)
None == << "N", "o", "n", "e" >>

(***************************************************************************)
(* Bounds of the model                                                     *)
(***************************************************************************)

\* seconds between two observations of the clock
TickStep == 200

\* the clock stops here
MaxTime == 450

(***************************************************************************)
(* Exceptions, events and runs                                             *)
(***************************************************************************)

NoExc == "none"

\* isinstance(exc, cls) over the exception classes that occur: whatever
\* model.generate_content raises ("APIError"), ValueError,
\* json.JSONDecodeError (a ValueError), AttributeError, tenacity.RetryError;
\* all of them are Exceptions
IsInstance(exc, cls) ==
  /\ exc # NoExc
  /\ \/ exc = cls
     \/ cls = "Exception"
     \/ cls = "ValueError" /\ exc = "JSONDecodeError"

\* one remote answer: the call throws, or response.text is text
Throws == [throws |-> TRUE, text |-> << >>]
Answers(text) == [throws |-> FALSE, text |-> text]

\* an entry of the trace of a call: what was called or shown, in order
Ev(name) == [ev |-> name, throws |-> FALSE, text |-> << >>]
RemoteEv(name, o) == [ev |-> name, throws |-> o.throws, text |-> o.text]

\* the outcome of a block or a call: the value returned or the exception
\* raised, and what it did
Return(v, tr) == [ret |-> v, exc |-> NoExc, trace |-> tr]
Raise(e, tr) == [ret |-> << >>, exc |-> e, trace |-> tr]

(***************************************************************************)
(* @retry(stop=stop_after_attempt(3), wait=wait_exponential(...))          *)
(* attempts is the set of outcomes one execution of the decorated function *)
(* can have; the n-th attempt is being made.  An attempt that returns ends *)
(* the call; one that raises is followed by another until the third, after *)
(* which RetryError is raised.  The wait between two attempts only delays  *)
(* the next one.                                                           *)
(***************************************************************************)

RECURSIVE retry(_, _)
retry(attempts, n) ==
  UNION { IF r.exc = NoExc THEN {r}
          ELSE IF n >= STOP_AFTER_ATTEMPT THEN {Raise("RetryError", r.trace)}
          ELSE {[r2 EXCEPT !.trace = r.trace \o r2.trace] : r2 \in retry(attempts, n + 1)}
        : r \in attempts }

(***************************************************************************)
(* get_sentiment                                                           *)
(***************************************************************************)

\* IsTooShort without the strip()
IsTooShort_unstripped(text) == Len(text) < MIN_TEXT_LEN

\* if len(text.strip()) < 3
IsTooShort(text) == Len(strip(text)) < MIN_TEXT_LEN

\* dict.get(key, default); json.loads keeps the last of equal keys
dict_get(d, key, default) ==
  LET hits == {i \in 1..Len(d.items) : d.items[i].key = key}
  IN  IF hits = {} THEN default
      ELSE d.items[CHOOSE i \in hits : \A j \in hits : j <= i].value

\* result.get("sentiment", "neutral").lower() on the parsed value
sentiment_of(result) ==
  IF result.type # "dict" THEN Raise("AttributeError", << >>)
  ELSE LET v == dict_get(result, KEY_sentiment, JStr(NEUTRAL))
       IN  IF v.type # "str" THEN Raise("AttributeError", << >>)
           ELSE Return(lower(v.str), << >>)

\* the try block of get_sentiment, the remote call answering o
sentiment_try(o) ==
  IF o.throws THEN Raise("APIError", << >>)
  ELSE IF strip(o.text) = << >> THEN Raise("ValueError", << >>)
  ELSE LET result == json_loads(strip(o.text))
       IN  IF ~result.ok THEN Raise("JSONDecodeError", << >>)
           ELSE sentiment_of(result.val)

\* sentiment_except as except (json.JSONDecodeError, ValueError)
sentiment_except_narrow(exc) ==
  \/ IsInstance(exc, "JSONDecodeError")
  \/ IsInstance(exc, "ValueError")

\* except (json.JSONDecodeError, ValueError, Exception) as e
sentiment_except(exc) ==
  \/ IsInstance(exc, "JSONDecodeError")
  \/ IsInstance(exc, "ValueError")
  \/ IsInstance(exc, "Exception")

\* one execution of the undecorated get_sentiment
get_sentiment_body(text, o) ==
  IF IsTooShort(text) THEN Return(NEUTRAL, << >>)
  ELSE LET call == << RemoteEv("generate_content(sentiment_prompt)", o) >>
           t == sentiment_try(o)
       IN  IF t.exc = NoExc THEN Return(t.ret, call)
           ELSE IF sentiment_except(t.exc)
             THEN Return(NEUTRAL, call \o << Ev("st.error(sentiment analysis)") >>)
           ELSE Raise(t.exc, call)

\* @st.cache_data(ttl=300): an entry is the value stored for a key and the
\* time it was stored at
NoEntry == [stored |-> FALSE, value |-> << >>, at |-> 0]
Entry(v, t) == [stored |-> TRUE, value |-> v, at |-> t]

\* Live without the ttl
Live_forever(e, t) == e.stored

\* an entry is served until ttl seconds after it was stored
Live(e, t) == e.stored /\ t < e.at + TTL

\* cache_store keeping only the labels the remote model gave
cache_store_answers_only(c, key, r, t) ==
  IF r.exc = NoExc /\ \A i \in DOMAIN r.trace : r.trace[i].ev # "st.error(sentiment analysis)"
    THEN [c EXCEPT ![key] = Entry(r.ret, t)]
    ELSE c

\* what the cache holds after the decorated function ended with r
cache_store(c, key, r, t) ==
  IF r.exc = NoExc THEN [c EXCEPT ![key] = Entry(r.ret, t)] ELSE c

\* a call of a function under st.cache_data with the argument key, the
\* cache being c at time t, inner being what the function can do
cache_data(c, key, t, inner) ==
  IF Live(c[key], t)
    THEN {[ret |-> c[key].value, exc |-> NoExc, trace |-> << >>, cache |-> c]}
    ELSE {[ret |-> r.ret, exc |-> r.exc, trace |-> r.trace,
           cache |-> cache_store(c, key, r, t)] : r \in inner}

\* get_sentiment(text) as its callers see it: cache_data around the retried
\* function, inner being what the retried function can do for text
get_sentiment(text, c, t, inner) ==
  LET runs == cache_data(c, text, t, inner)
  IN  {[r EXCEPT !.trace = << Ev("call get_sentiment") >> \o r.trace \o
          << Ev(IF r.exc = NoExc THEN "return get_sentiment"
                                 ELSE "raise get_sentiment") >>] : r \in runs}

(***************************************************************************)
(* generate_sentiment_aligned_text                                         *)
(***************************************************************************)

\* normalize_style without the upper()
normalize_style_as_given(style_mode) == strip(replace(style_mode, FUN_EMOJIS, << >>))

\* style_mode.upper().replace(" (FUN & EMOJIS)", "").strip()
normalize_style(style_mode) == strip(replace(upper(style_mode), FUN_EMOJIS, << >>))

\* examples.get(sentiment, examples["neutral"]) of get_eli10_examples
get_eli10_examples(sentiment) ==
  [bank |-> "eli10", key |-> IF sentiment \in Labels THEN sentiment ELSE NEUTRAL]

\* examples.get(sentiment, examples["neutral"]) of get_normal_examples
get_normal_examples(sentiment) ==
  [bank |-> "normal", key |-> IF sentiment \in Labels THEN sentiment ELSE NEUTRAL]

\* the fragments generation_prompt is concatenated from
generation_prompt(sentiment, original_prompt, word_count, style_mode) ==
  LET form == IF word_count < ESSAY_WORDS THEN "paragraph" ELSE "short essay"
  IN  IF normalize_style(style_mode) = ELI10
        THEN [form |-> form, tone |-> sentiment, words |-> word_count,
              flair |-> "ELI10 style",
              extra_flair |-> IF sentiment = POSITIVE THEN "jokes and excited emojis"
                              ELSE IF sentiment = NEGATIVE THEN "dark humor and sad emojis"
                              ELSE "light jokes and neutral emojis",
              examples |-> get_eli10_examples(sentiment),
              original |-> original_prompt]
        ELSE [form |-> form, tone |-> sentiment, words |-> word_count,
              flair |-> "",
              extra_flair |-> "formal, no slang, jokes or emojis",
              examples |-> get_normal_examples(sentiment),
              original |-> original_prompt]

\* generation_try without the check for an empty response
generation_try_unchecked(o) ==
  IF o.throws THEN Raise("APIError", << >>) ELSE Return(strip(o.text), << >>)

\* the try block of generate_sentiment_aligned_text
generation_try(o) ==
  IF o.throws THEN Raise("APIError", << >>)
  ELSE IF strip(o.text) = << >> THEN Raise("ValueError", << >>)
  ELSE Return(strip(o.text), << >>)

\* except (ValueError, Exception) as e
generation_except(exc) ==
  \/ IsInstance(exc, "ValueError")
  \/ IsInstance(exc, "Exception")

\* one execution of the undecorated generate_sentiment_aligned_text
generate_body(o) ==
  LET call == << RemoteEv("generate_content(generation_prompt)", o) >>
      t == generation_try(o)
  IN  IF t.exc = NoExc THEN Return(t.ret, call)
      ELSE IF generation_except(t.exc)
        THEN Return(GENERATION_FAILED, call \o << Ev("st.error(text generation)") >>)
      ELSE Raise(t.exc, call)

\* generate_sentiment_aligned_text(...) as its callers see it: retry around
\* the function, not cached; the prompt it sends is generation_prompt
generate_sentiment_aligned_text(outs) ==
  {[r EXCEPT !.trace = << Ev("call generate_sentiment_aligned_text") >> \o r.trace \o
      << Ev(IF r.exc = NoExc THEN "return generate_sentiment_aligned_text"
                             ELSE "raise generate_sentiment_aligned_text") >>]
   : r \in retry({generate_body(o) : o \in outs}, 1)}

(***************************************************************************)
(* The "Generate Text" button handler                                      *)
(***************************************************************************)

\* has_prompt without the strip()
has_prompt_unstripped(original_prompt) == original_prompt # << >>

\* if original_prompt.strip():
has_prompt(original_prompt) == strip(original_prompt) # << >>

\* clean_style = "ELI10" if "ELI10" in style_mode.upper() else "Normal"
clean_style(style_mode) ==
  IF Contains(upper(style_mode), ELI10) THEN ELI10 ELSE NORMAL

\* sentiment_logic calling get_sentiment in manual mode too
sentiment_logic_always_detects(original_prompt, manual_sentiment, selected_sentiment, c, t, inner) ==
  {[r EXCEPT !.ret = IF manual_sentiment = "Manual" THEN selected_sentiment ELSE r.ret]
   : r \in get_sentiment(original_prompt, c, t, inner)}

\* the sentiment logic of the handler: the manual selection, or
\* get_sentiment(original_prompt)
sentiment_logic(original_prompt, manual_sentiment, selected_sentiment, c, t, inner) ==
  IF manual_sentiment = "Manual"
    THEN {[ret |-> selected_sentiment, exc |-> NoExc,
           trace |-> << Ev("st.info(manual sentiment)") >>, cache |-> c]}
    ELSE {[r EXCEPT !.trace = IF r.exc = NoExc
                                THEN r.trace \o << Ev("st.success(detected sentiment)") >>
                                ELSE r.trace]
          : r \in get_sentiment(original_prompt, c, t, inner)}

(***************************************************************************)
(* State                                                                   *)
(*   cache  the entries of st.cache_data for get_sentiment, by argument    *)
(*   now    the clock st.cache_data reads, in seconds                      *)
(*   last   the call made at the present time, if any: its arguments, the  *)
(*          outcome of get_sentiment (cls) and of                          *)
(*          generate_sentiment_aligned_text (gen) in it, and the trace of  *)
(*          what it called and showed                                      *)
(***************************************************************************)
VARIABLES cache, now, last

vars == << cache, now, last >>

\* the texts get_sentiment is called with
Texts == {<< >>, T_blank, T_short, T_abc, T_abc_sp}

\* the word counts of the slider that are used
WordCounts == {100, 200}

\* what the remote model can do on a classification call
ClsOutcomes ==
  {Throws} \cup
  {Answers(x) : x \in {<< >>, R_blank, R_positive, R_NEGATIVE, R_neutral, R_mixed,
                       R_nofield, R_emptyobj, R_number, R_null, R_list, R_string,
                       R_truncated, R_prose}}

\* what the remote model can do on a generation call
GenOutcomes == {Throws, Answers(<< >>), Answers(R_blank), Answers(G_text), Answers(G_ok)}

\* the sentiment arguments generate_sentiment_aligned_text is called with
SentimentArgs == Labels \cup {MIXED}

\* the options of the "Style Mode" select box
UiStyles == {UI_ELI10, UI_NORMAL}

\* the style_mode arguments generate_sentiment_aligned_text is called with
StyleModes ==
  UiStyles \cup {ELI10, NORMAL, ST_eli10, ST_eLi10_sp, ST_ui_eli10_mixed, ST_normal,
                 ST_NORMAL_sp, ST_normal_ui_lower, ST_eli10_mode, ST_eli5, << >>}

NoPrompt ==
  [form |-> "", tone |-> << >>, words |-> 0, flair |-> "", extra_flair |-> "",
   examples |-> [bank |-> "", key |-> << >>], original |-> << >>]

\* the generation prompt of every call that is made
PromptOf ==
  [sentiment \in SentimentArgs, original_prompt \in Texts,
   word_count \in WordCounts, style_mode \in StyleModes \cup {ELI10, NORMAL}
   |-> generation_prompt(sentiment, original_prompt, word_count, style_mode)]

\* clean_style of every option of the select box
CleanStyleOf == [style_mode \in UiStyles |-> clean_style(style_mode)]

\* has_prompt of every text
HasPrompt == [original_prompt \in Texts |-> has_prompt(original_prompt)]

\* what the retried get_sentiment can do for each text, the remote answers
\* drawn from outs
SentimentRuns(outs) ==
  [text \in Texts |-> retry({get_sentiment_body(text, o) : o \in outs}, 1)]

NoCls == [called |-> FALSE, ret |-> << >>, exc |-> NoExc]

NoGen == [called |-> FALSE, sentiment |-> << >>, style_mode |-> << >>,
          prompt |-> NoPrompt, ret |-> << >>, exc |-> NoExc]

Idle ==
  [op |-> "idle", text |-> << >>, manual_sentiment |-> "", selected_sentiment |-> None,
   style_mode |-> << >>, word_count |-> 0, cls |-> NoCls, gen |-> NoGen, trace |-> << >>]

Cls(r) == [called |-> TRUE, ret |-> r.ret, exc |-> r.exc]

Gen(sentiment, original_prompt, word_count, style_mode, g) ==
  [called |-> TRUE, sentiment |-> sentiment, style_mode |-> style_mode,
   prompt |-> PromptOf[sentiment, original_prompt, word_count, style_mode],
   ret |-> g.ret, exc |-> g.exc]

Init ==
  /\ cache = [t \in Texts |-> NoEntry]
  /\ now = 0
  /\ last = Idle

\* a caller calls get_sentiment(text)
CallGetSentiment(texts, runs) ==
  \E text \in texts :
    \E r \in get_sentiment(text, cache, now, runs[text]) :
      /\ cache' = r.cache
      /\ last' = [Idle EXCEPT !.op = "get_sentiment", !.text = text,
                              !.cls = Cls(r), !.trace = r.trace]
      /\ UNCHANGED now

\* a caller calls generate_sentiment_aligned_text(sentiment, original_prompt,
\* word_count, style_mode)
CallGenerate(sentiments, prompts, styles, runs) ==
  \E sentiment \in sentiments, original_prompt \in prompts,
     word_count \in WordCounts, style_mode \in styles :
    \E g \in runs :
      /\ last' = [Idle EXCEPT !.op = "generate", !.text = original_prompt,
                              !.style_mode = style_mode, !.word_count = word_count,
                              !.gen = Gen(sentiment, original_prompt, word_count,
                                          style_mode, g),
                              !.trace = g.trace]
      /\ UNCHANGED << cache, now >>

\* the user presses "Generate Text"
GenerateClick(prompts, clsRuns, genRuns) ==
  \E original_prompt \in prompts, manual_sentiment \in {"Auto-detect", "Manual"},
     word_count \in WordCounts, style_mode \in UiStyles :
    \E selected_sentiment \in IF manual_sentiment = "Manual" THEN Labels ELSE {None} :
      LET click == [Idle EXCEPT !.op = "click", !.text = original_prompt,
                                !.manual_sentiment = manual_sentiment,
                                !.selected_sentiment = selected_sentiment,
                                !.style_mode = style_mode, !.word_count = word_count]
      IN  IF HasPrompt[original_prompt]
            THEN \E s \in sentiment_logic(original_prompt, manual_sentiment,
                                          selected_sentiment, cache, now,
                                          clsRuns[original_prompt]) :
                   /\ cache' = s.cache
                   /\ UNCHANGED now
                   /\ IF s.exc # NoExc
                        THEN last' = [click EXCEPT !.cls = Cls(s), !.trace = s.trace]
                        ELSE \E g \in genRuns :
                               last' = [click EXCEPT
                                 !.cls = IF manual_sentiment = "Manual" THEN NoCls ELSE Cls(s),
                                 !.gen = Gen(s.ret, original_prompt, word_count,
                                             CleanStyleOf[style_mode], g),
                                 !.trace = s.trace \o g.trace \o
                                           IF g.exc = NoExc
                                             THEN << Ev("st.write(generated_text)") >>
                                             ELSE << >>]
            ELSE /\ last' = [click EXCEPT !.trace = << Ev("st.warning(enter a prompt)") >>]
                 /\ UNCHANGED << cache, now >>

\* the user presses "Clear Prompt": st.rerun()
ClearClick ==
  /\ last' = Idle
  /\ UNCHANGED << cache, now >>

\* time passes; the call that was being looked at is over
Tick ==
  /\ now + TickStep <= MaxTime
  /\ now' = now + TickStep
  /\ last' = Idle
  /\ UNCHANGED cache

(***************************************************************************)
(* Spec: the two functions of the pipeline called by any caller            *)
(***************************************************************************)

ClsRuns == SentimentRuns(ClsOutcomes)

GenRuns == generate_sentiment_aligned_text(GenOutcomes)

Next ==
  \/ CallGetSentiment({T_short, T_abc, T_abc_sp}, ClsRuns)
  \/ CallGenerate({POSITIVE}, {T_abc}, {UI_ELI10}, GenRuns)
  \/ Tick

Spec == Init /\ [][Next]_vars

(***************************************************************************)
(* SpecShort: get_sentiment called with short and blank texts              *)
(***************************************************************************)

ShortClsRuns == SentimentRuns({Throws, Answers(R_positive)})

NextShort ==
  \/ CallGetSentiment({<< >>, T_blank, T_short, T_abc}, ShortClsRuns)
  \/ Tick

SpecShort == Init /\ [][NextShort]_vars

(***************************************************************************)
(* SpecUI: the page, its two buttons                                       *)
(***************************************************************************)

UiPrompts == {<< >>, T_blank, T_short, T_abc}

UiClsRuns ==
  SentimentRuns({Throws, Answers(R_positive), Answers(R_NEGATIVE), Answers(R_mixed)})

UiGenRuns ==
  generate_sentiment_aligned_text({Throws, Answers(R_blank), Answers(G_text)})

NextUI ==
  \/ GenerateClick(UiPrompts, UiClsRuns, UiGenRuns)
  \/ ClearClick
  \/ Tick

SpecUI == Init /\ [][NextUI]_vars

(***************************************************************************)
(* SpecStyle: generation under every style_mode argument                   *)
(***************************************************************************)

StyleClsRuns == SentimentRuns({Answers(R_positive)})

StyleGenRuns == generate_sentiment_aligned_text({Throws, Answers(G_text)})

NextStyle ==
  \/ CallGenerate(SentimentArgs, {T_abc}, StyleModes, StyleGenRuns)
  \/ GenerateClick({T_abc}, StyleClsRuns, StyleGenRuns)

SpecStyle == Init /\ [][NextStyle]_vars

(***************************************************************************)
(* Properties                                                              *)
(***************************************************************************)

ClsRemote == "generate_content(sentiment_prompt)"
GenRemote == "generate_content(generation_prompt)"
ClsError == "st.error(sentiment analysis)"
GenError == "st.error(text generation)"

\* the positions of the events named ev in a trace
At(tr, ev) == {i \in DOMAIN tr : tr[i].ev = ev}

\* the remote answers get_sentiment cannot take a label from: an exception,
\* an empty text, no JSON, no JSON object, a sentiment that is no string
ClsFails(e) ==
  \/ e.throws
  \/ e.text \in {<< >>, R_blank, R_truncated, R_prose, R_list, R_string, R_number, R_null}

\* the remote answers generate_sentiment_aligned_text cannot take a text from
GenFails(e) == e.throws \/ e.text \in {<< >>, R_blank}

\* the texts whose stripped length is below 3
ShortTexts == {<< >>, T_blank, T_short}

\* C1: get_sentiment never raises: whatever the text and whatever the remote
\* call does, the call returns; when the remote call throws or answers with
\* an empty text, with text that is no JSON, with JSON that is no object or
\* with a sentiment that is no string, it returns "neutral" and the failure
\* is shown with st.error.
C1_ClassifyNeverRaises ==
  last.cls.called =>
    /\ last.cls.exc = NoExc
    /\ At(last.trace, "return get_sentiment") # {}
    /\ At(last.trace, "raise get_sentiment") = {}
    /\ \A i \in At(last.trace, ClsRemote) :
         ClsFails(last.trace[i]) =>
           /\ last.cls.ret = NEUTRAL
           /\ \E j \in At(last.trace, ClsError) : j > i

C1_Witness ==
  /\ last.cls.called
  /\ last.cls.ret = NEUTRAL
  /\ \E i \in At(last.trace, ClsRemote) : last.trace[i].text = R_number

\* C2: every value get_sentiment returns is one of "positive", "negative",
\* "neutral", and so is the sentiment the handler passes to
\* generate_sentiment_aligned_text in auto-detect mode.
C2_LabelInEnumeration ==
  /\ last.cls.called /\ last.cls.exc = NoExc => last.cls.ret \in Labels
  /\ last.op = "click" /\ last.gen.called => last.gen.sentiment \in Labels

\* C3: a call of get_sentiment or of generate_sentiment_aligned_text whose
\* remote attempts all fail makes exactly 3 of them before it returns
\* "neutral" (the fallback string), and no attempt follows one that succeeds.
C3_ThreeAttemptsOnFailure ==
  /\ ( /\ last.cls.called
       /\ At(last.trace, ClsRemote) # {}
       /\ \A i \in At(last.trace, ClsRemote) : ClsFails(last.trace[i]) )
     => /\ Cardinality(At(last.trace, ClsRemote)) = 3
        /\ last.cls.ret = NEUTRAL
  /\ ( /\ last.gen.called
       /\ \A i \in At(last.trace, GenRemote) : GenFails(last.trace[i]) )
     => /\ Cardinality(At(last.trace, GenRemote)) = 3
        /\ last.gen.ret = GENERATION_FAILED
  /\ \A i, j \in At(last.trace, ClsRemote) : i < j => ClsFails(last.trace[i])
  /\ \A i, j \in At(last.trace, GenRemote) : i < j => GenFails(last.trace[i])

\* C4: generate_sentiment_aligned_text never raises and returns a non-empty
\* string: the stripped text of a remote answer that is not blank, and
\* exactly "Generation failed. Please try again.", with an st.error, when
\* every remote attempt throws or answers with a blank text.
C4_GenerateTotal ==
  last.gen.called =>
    /\ last.gen.exc = NoExc
    /\ last.gen.ret # << >>
    /\ At(last.trace, "return generate_sentiment_aligned_text") # {}
    /\ At(last.trace, GenRemote) # {}
    /\ \A i \in At(last.trace, GenRemote) :
         /\ ~last.trace[i].throws /\ last.trace[i].text = G_text
              => last.gen.ret = G_text_stripped
         /\ ~last.trace[i].throws /\ last.trace[i].text = G_ok
              => last.gen.ret = G_ok
    /\ (\A i \in At(last.trace, GenRemote) : GenFails(last.trace[i]))
         => /\ last.gen.ret = GENERATION_FAILED
            /\ At(last.trace, GenError) # {}

C4_Witness ==
  /\ last.gen.called
  /\ last.gen.ret = GENERATION_FAILED
  /\ \E i \in At(last.trace, GenRemote) : last.trace[i].text = R_blank

\* C5: for a text whose stripped length is below 3, get_sentiment returns
\* "neutral" and makes no remote call, with or without a cache entry for it.
C5_ShortTextIsNeutral ==
  last.cls.called /\ last.text \in ShortTexts =>
    /\ last.cls.ret = NEUTRAL
    /\ last.cls.exc = NoExc
    /\ At(last.trace, ClsRemote) = {}

C5_Witness ==
  /\ last.cls.called
  /\ last.text = T_short
  /\ cache[T_short].stored
  /\ cache[T_short].at < now
  /\ cache[T_blank].stored
  /\ last.cls.ret = NEUTRAL

\* C6: a press of "Generate Text" with a prompt that is not blank calls
\* get_sentiment at most once and then generate_sentiment_aligned_text
\* exactly once, the second only after the first has returned; in
\* auto-detect mode the sentiment passed is what get_sentiment returned for
\* the prompt, in manual mode get_sentiment is not called and the sentiment
\* passed is the one selected.
C6_ClassifyThenGenerate ==
  last.op = "click" /\ last.text \in {T_short, T_abc} =>
    LET clsCall == At(last.trace, "call get_sentiment")
        clsRet == At(last.trace, "return get_sentiment")
        genCall == At(last.trace, "call generate_sentiment_aligned_text")
    IN  /\ Cardinality(clsCall) <= 1
        /\ Cardinality(genCall) = 1
        /\ last.gen.called
        /\ last.gen.prompt.original = last.text
        /\ \A i \in clsCall : \E r \in clsRet : \A g \in genCall : i < r /\ r < g
        /\ \A i \in At(last.trace, ClsRemote) : \A g \in genCall : i < g
        /\ last.manual_sentiment = "Auto-detect" =>
             /\ Cardinality(clsCall) = 1
             /\ last.cls.called
             /\ last.gen.sentiment = last.cls.ret
             /\ last.gen.prompt.tone = last.cls.ret
        /\ last.manual_sentiment = "Manual" =>
             /\ clsCall = {}
             /\ At(last.trace, ClsRemote) = {}
             /\ last.gen.sentiment = last.selected_sentiment
             /\ last.gen.prompt.tone = last.selected_sentiment

C6_Witness ==
  /\ last.op = "click"
  /\ last.text = T_abc
  /\ last.manual_sentiment = "Auto-detect"
  /\ At(last.trace, ClsRemote) # {}
  /\ last.gen.called
  /\ last.gen.sentiment = NEGATIVE

\* C7: a press of "Generate Text" with an empty or blank prompt calls
\* neither get_sentiment nor generate_sentiment_aligned_text and makes no
\* remote call, in either sentiment mode; it only shows the warning that
\* asks for a prompt.
C7_BlankPromptOnlyWarns ==
  last.op = "click" /\ last.text \in {<< >>, T_blank} =>
    /\ ~last.cls.called
    /\ ~last.gen.called
    /\ last.trace = << Ev("st.warning(enter a prompt)") >>

C7_Witness ==
  /\ last.op = "click"
  /\ last.text = T_blank
  /\ last.manual_sentiment = "Manual"
  /\ last.trace = << Ev("st.warning(enter a prompt)") >>
  /\ \E t \in Texts : cache[t].stored

\* the step is a call of get_sentiment(text)
IsClassifyOf(text) == last'.cls.called /\ last'.text = text /\ vars' # vars

\* C8: the cache of get_sentiment is keyed by the exact text and lives 300
\* seconds: a call for a text whose entry is younger returns the stored label
\* without a remote call; a call for a text with no entry or with an older
\* entry makes the remote call and returns the label of that answer; the
\* entries of other texts are left alone; generate_sentiment_aligned_text is
\* not cached, every call of it makes a remote call.
C8_Step ==
  /\ \A text \in Texts :
       IsClassifyOf(text) =>
         LET e == cache[text]
             remote == At(last'.trace, ClsRemote)
         IN  /\ e.stored /\ now - e.at < 300 =>
                  /\ last'.cls.ret = e.value
                  /\ remote = {}
                  /\ cache' = cache
             /\ (~e.stored \/ now - e.at > 300) /\ text \notin ShortTexts =>
                  /\ Cardinality(remote) = 1
                  /\ cache'[text].stored /\ cache'[text].at = now
                  /\ cache'[text].value = last'.cls.ret
                  /\ \A i \in remote :
                       /\ ~last'.trace[i].throws /\ last'.trace[i].text = R_positive
                            => last'.cls.ret = POSITIVE
                       /\ ~last'.trace[i].throws /\ last'.trace[i].text = R_NEGATIVE
                            => last'.cls.ret = NEGATIVE
                       /\ last'.trace[i].throws => last'.cls.ret = NEUTRAL
             /\ \A other \in Texts \ {text} : cache'[other] = cache[other]
  /\ last'.gen.called /\ vars' # vars =>
       /\ At(last'.trace, GenRemote) # {}
       /\ cache' = cache

C8_CacheByTextWithTtl == [][C8_Step]_vars

C8_Witness ==
  /\ last.cls.called
  /\ last.text = T_abc
  /\ At(last.trace, ClsRemote) = {}
  /\ cache[T_abc].stored /\ cache[T_abc].at < now
  /\ last.cls.ret = NEGATIVE
  /\ cache[T_abc_sp].stored /\ cache[T_abc_sp].value = POSITIVE

\* the style_mode arguments that name the playful style, and the formal one
PlayfulModes == {UI_ELI10, ELI10, ST_eli10, ST_eLi10_sp, ST_ui_eli10_mixed}
FormalModes == {UI_NORMAL, NORMAL, ST_normal, ST_NORMAL_sp, ST_normal_ui_lower}

Playful(p) ==
  /\ p.flair = "ELI10 style"
  /\ p.extra_flair # "formal, no slang, jokes or emojis"
  /\ p.examples.bank = "eli10"

Formal(p) ==
  /\ p.flair = ""
  /\ p.extra_flair = "formal, no slang, jokes or emojis"
  /\ p.examples.bank = "normal"

\* C9: for every style_mode, generate_sentiment_aligned_text builds either
\* the ELI10 prompt or the formal prompt, never a mix and never an error;
\* "ELI10 (Fun & Emojis)", "eli10", "ELI10" in any case and with whitespace
\* around select the ELI10 prompt, "Normal (Formal)" and "normal" the formal
\* one; the handler's clean_style followed by the function's normalization
\* selects the style the function's normalization alone selects.
C9_StyleNormalization ==
  last.gen.called =>
    /\ last.gen.exc = NoExc
    /\ Playful(last.gen.prompt) # Formal(last.gen.prompt)
    /\ last.gen.style_mode \in PlayfulModes => Playful(last.gen.prompt)
    /\ last.gen.style_mode \in FormalModes => Formal(last.gen.prompt)
    /\ last.op = "click" =>
         /\ last.style_mode = UI_ELI10 => Playful(last.gen.prompt)
         /\ last.style_mode = UI_NORMAL => Formal(last.gen.prompt)
         /\ Playful(last.gen.prompt) <=>
              Playful(PromptOf[last.gen.sentiment, last.text, last.word_count,
                               last.style_mode])

C9_Witness ==
  /\ last.op = "generate"
  /\ last.gen.style_mode = ST_ui_eli10_mixed
  /\ Playful(last.gen.prompt)

\* C10: the "neutral" of a failed classification is cached like a label:
\* after a call of get_sentiment for a text whose remote attempt failed, the
\* cache holds "neutral" for the text; a later call for it within 300
\* seconds returns "neutral" without a remote call, and a remote call for a
\* text with an entry is made only once the entry has expired.
C10_Step ==
  \A text \in Texts :
    IsClassifyOf(text) =>
      LET e == cache[text]
      IN  /\ At(last'.trace, ClsError) # {} =>
               /\ last'.cls.ret = NEUTRAL
               /\ cache'[text] = Entry(NEUTRAL, now)
          /\ e = Entry(NEUTRAL, e.at) /\ now - e.at < 300 =>
               /\ last'.cls.ret = NEUTRAL
               /\ At(last'.trace, ClsRemote) = {}
               /\ cache'[text] = e
          /\ e.stored /\ At(last'.trace, ClsRemote) # {} => now - e.at >= 300

C10_FallbackIsCached == [][C10_Step]_vars

C10_Witness ==
  /\ last.cls.called
  /\ last.text = T_abc
  /\ At(last.trace, ClsError) # {}
  /\ cache[T_abc] = Entry(NEUTRAL, now)
  /\ now > 0

====
